---- MODULE Spec2Model ----
(***************************************************************************)
(* snap_html: one call of generate_image_batch, the PlaywrightManager      *)
(* session it owns or is given, and the concurrent _generate render tasks  *)
(* it gathers.  The browser engine (playwright) is the environment: every  *)
(* awaited engine call is one step whose outcome the engine chooses.       *)
(* Further specifications run the resolution step, cm_to_pixels and the    *)
(* capture command of the command line on their own inputs.                *)
(***************************************************************************)
EXTENDS Integers, Sequences, FiniteSets, TLC

\* Largest number of targets of one batch call.
MaxTargets == 2

VARIABLES
    playwright_manager, \* argument: "None", or the state of the given session at the call
    targets,            \* argument: the list of targets
    query_parameters_list, \* argument: <<"None">> (absent) or <<"list", n>> (a list of n entries)
    output_files,       \* argument: <<"None">> (absent) or <<"list", n>>
    playwright,         \* session.playwright: "none" | "started" | "stopped"
    browser,            \* session.browser:    "none" | "open" | "closed"
    context,            \* session.context:    "none" | "open" | "closed"
    log,                \* the release calls the batch has made on the session, in order
    bpc,                \* where generate_image_batch is
    tasks,              \* the _generate tasks handed to asyncio.gather, in argument order
    finished,           \* indices of the tasks that have ended, in completion order
    outer,              \* the future gather returns: "none" | "pending" | "result" | "exception"
    exc,                \* the exception in flight in, or raised by, generate_image_batch
    result,             \* the list generate_image_batch returns
    resolution,         \* argument: <<"None">> or <<"dict", d>>, d the dict's keys and values
    scale_factor,       \* argument: a fraction <<numerator, denominator>>
    object_fit,         \* argument: <<"None">> (left at its default) or <<"given", fit>>
    resolved,           \* actual_resolution, device_scale and content_fit once computed
    conv_cm,            \* argument cm of a direct cm_to_pixels call, in hundredths of a cm
    conv_dpi,           \* argument dpi of a direct cm_to_pixels call
    pixels,             \* what that cm_to_pixels call returned
    manager_settings,   \* viewport and device_scale_factor the given session was constructed with
    settings,           \* viewport and device scale factor of session.context
    pages,              \* for each page of the context, the tasks that have operated on it
    source,             \* command line: the SOURCE argument of capture
    options,            \* command line: the size options given, with their values
    dpi_option,         \* command line: --dpi
    scale_option,       \* command line: --scale
    output,             \* command line: <<"None">> or <<"given">> for --output
    cpc,                \* where the capture command is
    stdout,             \* what capture has printed
    exit_code           \* <<>> while running, then <<code>>

vars == <<playwright_manager, targets, query_parameters_list, output_files,
          playwright, browser, context, log, bpc, tasks, finished, outer, exc, result,
          resolution, scale_factor, object_fit, resolved, conv_cm, conv_dpi, pixels,
          manager_settings, settings, pages,
          source, options, dpi_option, scale_option, output, cpc, stdout, exit_code>>

inputs == <<playwright_manager, targets, query_parameters_list, output_files,
            resolution, scale_factor, object_fit, conv_cm, conv_dpi, manager_settings>>

session == <<playwright, browser, context>>

\* The command line of capture, and the state of the command.
args == <<source, options, dpi_option, scale_option, output>>

cli == <<cpc, stdout, exit_code>>

NoExc == [kind |-> "none", task |-> 0]

Exc(kind, k) == [kind |-> kind, task |-> k]

\* What an awaited engine call can do.
Outcomes == {"ok", "fail"}

\* The texts a page writes to its console.
ConsoleTexts == {"RENDER_COMPLETE", "other"}

Absent == <<"None">>

ListOf(n) == <<"list", n>>

Min(a, b) == IF a <= b THEN a ELSE b

----------------------------------------------------------------------------
(* PlaywrightManager *)

\* get_context: raises when self.context is None, returns self.context otherwise.
get_context(ctx) == IF ctx = "none" THEN "raise" ELSE "return"

\* `if playwright_manager:` chooses the injected path; the other path owns the session.
OwnsSessionAlways(pm) == TRUE

OwnsSession(pm) == pm = "None"

----------------------------------------------------------------------------
(* generate_image_batch: building the task list *)

\* `xs or [None] * len(targets)`: an absent or empty list is replaced by one
\* None per target; any other list is used as it is.
OrDefault(xs, n) == IF xs = Absent \/ xs[2] = 0 THEN n ELSE xs[2]

\* zip(targets, ..., ...) stops at the shortest of its three arguments.
ZipLen(n, qpl, ofs) == Min(n, Min(OrDefault(qpl, n), OrDefault(ofs, n)))

\* url_address of a target (a str target is used as it is).
url_address(target) == target

\* asyncio.wait_for(..., timeout=render_timeout) arms a timer for the wait.
WaitTimerNone == "off"

WaitTimer == "armed"

NoSettings == [width |-> 0, height |-> 0, scale |-> <<0, 1>>]

NewTask(target) ==
    [url |-> url_address(target), pc |-> "new_page", page |-> "none", nav |-> "blank",
     render_complete |-> FALSE, timer |-> "off", shot |-> <<>>, err |-> "none",
     handle |-> 0, view |-> NoSettings]

\* The coroutines appended to `tasks`, one per tuple of the zip.
Spawn == [k \in 1..ZipLen(Len(targets), query_parameters_list, output_files)
            |-> NewTask(targets[k])]

----------------------------------------------------------------------------
(* _generate *)

\* A flag that every RENDER_COMPLETE flips.
handle_console_toggle(flag, text) == IF text = "RENDER_COMPLETE" THEN ~flag ELSE flag

\* handle_console: only the literal RENDER_COMPLETE sets the event.
handle_console(flag, text) == IF text = "RENDER_COMPLETE" THEN TRUE ELSE flag

\* render_complete.wait() returns once the event is set.
WaitReturnsAtOnce(flag) == TRUE

WaitReturns(flag) == flag

\* `except asyncio.TimeoutError: pass`.
OnTimeoutPropagate == "raise"

OnTimeout == "pass"

\* The tasks a batch can have, which also name the pages: page h is the one
\* the new_page call of task h created.
Tasks == 1..MaxTargets

new_page_shared(k) == 1

\* context.new_page() creates a page of its own at every call.
new_page(k) == k

PageSettingsFromCall(ctx_settings, res) ==
    [width |-> res.width, height |-> res.height, scale |-> res.scale]

\* A page has the viewport and device scale factor of the context it was
\* opened in; actual_resolution and device_scale are not passed to it.
PageSettings(ctx_settings, res) == ctx_settings

\* The task has operated on the page its handle names.
Operate(k, h) == [pages EXCEPT ![h] = @ \cup {k}]

\* page.screenshot(): the image shows the page as it is at capture.
Capture(t) == [url |-> t.url, nav |-> t.nav, complete |-> t.render_complete, view |-> t.view]

ClosePages(ts) ==
    [k \in DOMAIN ts |-> [ts[k] EXCEPT !.page = IF @ = "open" THEN "closed" ELSE @]]

\* A wait that ends with the first task that completes.
OuterAfterFirst(ts, k) ==
    IF outer # "pending" THEN outer
    ELSE IF ts[k].pc = "failed" THEN "exception"
    ELSE "result"

\* A gather that collects failures with the results (return_exceptions=True).
OuterAfterCollect(ts, k) ==
    IF outer # "pending" THEN outer
    ELSE IF \A j \in DOMAIN ts : ts[j].pc \in {"done", "failed"} THEN "result"
    ELSE "pending"

\* gather's done-callback: the first exception settles the outer future at
\* once; the last task to finish settles it with the results.
OuterAfter(ts, k) ==
    IF outer # "pending" THEN outer
    ELSE IF ts[k].pc = "failed" THEN "exception"
    ELSE IF \A j \in DOMAIN ts : ts[j].pc = "done" THEN "result"
    ELSE "pending"

ExcAfter(ts, k) ==
    IF outer = "pending" /\ ts[k].pc = "failed" THEN Exc(ts[k].err, k) ELSE exc

\* A task ends (returns or raises): gather's callback runs.
Ends(ts, k) ==
    /\ tasks' = ts
    /\ finished' = Append(finished, k)
    /\ outer' = OuterAfter(ts, k)
    /\ exc' = ExcAfter(ts, k)

Fails(k, why) == Ends([tasks EXCEPT ![k].pc = "failed", ![k].err = why], k)

-----------------------------------------------------------------------------
(* Resolution: UnitConverter.cm_to_pixels and the head of generate_image_batch *)

RECURSIVE GCD(_, _)
GCD(a, b) == IF b = 0 THEN a ELSE GCD(b, a % b)

\* Floats are modelled as exact fractions <<numerator, denominator>> in lowest
\* terms with a positive denominator, so the rounding error of float
\* arithmetic is left out; lengths in cm are integers counting hundredths of
\* a centimetre.
Frac(n, d) ==
    LET an == IF n < 0 THEN 0 - n ELSE n
        ad == IF d < 0 THEN 0 - d ELSE d
        g == GCD(an, ad)
        sign == IF (n < 0) # (d < 0) THEN 0 - 1 ELSE 1
    IN  <<sign * (an \div g), ad \div g>>

RMul(a, b) == Frac(a[1] * b[1], a[2] * b[2])

REq(a, b) == a[1] * b[2] = b[1] * a[2]

RLeq(a, b) == a[1] * b[2] <= b[1] * a[2]

RMin(a, b) == IF RLeq(a, b) THEN a ELSE b

RMax(a, b) == IF RLeq(a, b) THEN b ELSE a

RPositive(a) == a[1] * a[2] > 0

\* int(x) of a fraction: truncation towards zero.
Trunc(n, d) == IF n >= 0 THEN n \div d ELSE 0 - ((0 - n) \div d)

\* round(x) of a fraction n / d, d > 0: the nearest integer, a tie going to
\* the even neighbour.
Round(n, d) ==
    LET q == n \div d
        r == n % d
    IN  IF 2 * r < d THEN q
        ELSE IF 2 * r > d THEN q + 1
        ELSE IF q % 2 = 0 THEN q ELSE q + 1

\* int(inches * dpi) without the round().
cm_to_pixels_truncating(cm, dpi) == Trunc(cm * dpi, 254)

\* inches = cm / 2.54;  return int(round(inches * dpi))
cm_to_pixels(cm, dpi) == Round(cm * dpi, 254)

\* resolution.get(key, default)
Get(r, key, default) == IF key \in DOMAIN r THEN r[key] ELSE default

is_cm_resolution_either(r) == "cm_width" \in DOMAIN r \/ "cm_height" \in DOMAIN r

is_cm_resolution(r) == "cm_width" \in DOMAIN r /\ "cm_height" \in DOMAIN r

has_pixel_dimensions_either(r) == "width" \in DOMAIN r \/ "height" \in DOMAIN r

has_pixel_dimensions(r) == "width" \in DOMAIN r /\ "height" \in DOMAIN r

\* The parameter object_fit, ObjectFit.CONTAIN when the caller left it out.
ObjectFitParam(of) == IF of = Absent THEN "contain" ELSE of[2]

content_fit_param_first(r, of) ==
    IF of # Absent THEN of[2] ELSE Get(r, "object_fit", "contain")

\* content_fit = resolution.get('object_fit', object_fit)
content_fit(r, of) == Get(r, "object_fit", ObjectFitParam(of))

scale_ratio_swapped(fit, screen_width, screen_height, pixel_width, pixel_height) ==
    IF fit = "contain"
    THEN RMax(Frac(screen_width, pixel_width), Frac(screen_height, pixel_height))
    ELSE IF fit = "cover"
    THEN RMin(Frac(screen_width, pixel_width), Frac(screen_height, pixel_height))
    ELSE <<1, 1>>

\* scale_ratio of the hybrid branch; the caller has ruled out a zero divisor.
scale_ratio(fit, screen_width, screen_height, pixel_width, pixel_height) ==
    IF fit = "contain"
    THEN RMin(Frac(screen_width, pixel_width), Frac(screen_height, pixel_height))
    ELSE IF fit = "cover"
    THEN RMax(Frac(screen_width, pixel_width), Frac(screen_height, pixel_height))
    ELSE <<1, 1>>

hybrid_viewport_physical(screen_width, screen_height, pixel_width, pixel_height) ==
    <<pixel_width, pixel_height>>

\* actual_resolution of the hybrid branch, the same in every fit mode.
hybrid_viewport(screen_width, screen_height, pixel_width, pixel_height) ==
    <<screen_width, screen_height>>

DefaultViewportHD720 == <<1280, 720>>

\* The viewport used when the resolution names no complete pair.
DefaultViewport == <<1920, 1080>>

Unresolved == [status |-> "unset", width |-> 0, height |-> 0, scale |-> <<0, 1>>, fit |-> ""]

Resolved(viewport, scale, fit) ==
    [status |-> "ok", width |-> viewport[1], height |-> viewport[2],
     scale |-> scale, fit |-> fit]

ResolveError(kind, fit) ==
    [status |-> kind, width |-> 0, height |-> 0, scale |-> <<0, 1>>, fit |-> fit]

\* The resolution step of generate_image_batch, from its arguments to
\* actual_resolution, device_scale and content_fit, or to the error it raises.
Resolve(res, sf, of) ==
    LET r == IF res = Absent
             THEN [width |-> DefaultViewport[1], height |-> DefaultViewport[2]]
             ELSE res[2]
        fit == content_fit(r, of)
        has_cm == is_cm_resolution(r)
        has_pixels == has_pixel_dimensions(r)
        dpi == Get(r, "dpi", 300)
        pixel_width == cm_to_pixels(Get(r, "cm_width", 0), dpi)
        pixel_height == cm_to_pixels(Get(r, "cm_height", 0), dpi)
        screen_width == Get(r, "width", 1920)
        screen_height == Get(r, "height", 1080)
    IN  IF has_cm
        THEN IF has_pixels
             THEN IF fit \in {"contain", "cover"}
                  THEN IF pixel_width = 0 \/ pixel_height = 0
                       THEN ResolveError("ZeroDivisionError", fit)
                       ELSE Resolved(hybrid_viewport(screen_width, screen_height,
                                                     pixel_width, pixel_height),
                                     RMul(RMul(sf, scale_ratio(fit, screen_width, screen_height,
                                                               pixel_width, pixel_height)),
                                          Frac(dpi, 96)),
                                     fit)
                  ELSE Resolved(hybrid_viewport(screen_width, screen_height,
                                                pixel_width, pixel_height),
                                RMul(sf, Frac(dpi, 96)), fit)
             ELSE Resolved(<<pixel_width, pixel_height>>, sf, fit)
        ELSE IF has_pixels
        THEN Resolved(<<screen_width, screen_height>>, sf, fit)
        ELSE Resolved(DefaultViewport, sf, fit)

----------------------------------------------------------------------------
(* The call and its arguments *)

\* PlaywrightManager(viewport, device_scale_factor) as a caller constructs it.
DefaultManagerSettings == [width |-> 800, height |-> 600, scale |-> <<1, 1>>]

\* The settings of the given session's context: it has one once entered.
GivenSettings(pm, ms) == IF pm \in {"entered", "exited"} THEN ms ELSE NoSettings

NoPages == [h \in Tasks |-> {}]

\* The library is called directly, not through the command line.
NoCommand ==
    /\ source = [form |-> "none", exists |-> FALSE]
    /\ options = <<>>
    /\ dpi_option = 300
    /\ scale_option = <<1, 1>>
    /\ output = Absent
    /\ cpc = "none"
    /\ stdout = <<>>
    /\ exit_code = <<>>

SessionStates == {"fresh", "entered", "exited"}

Init ==
    /\ playwright_manager \in {"None"} \cup SessionStates
    /\ targets \in {[k \in 1..n |-> k] : n \in 0..MaxTargets}
    /\ query_parameters_list \in {Absent} \cup {ListOf(n) : n \in 0..Len(targets)}
    /\ output_files \in {Absent} \cup {ListOf(n) : n \in 0..Len(targets)}
    /\ playwright = CASE playwright_manager = "entered" -> "started"
                      [] playwright_manager = "exited" -> "stopped"
                      [] OTHER -> "none"
    /\ browser = CASE playwright_manager = "entered" -> "open"
                   [] playwright_manager = "exited" -> "closed"
                   [] OTHER -> "none"
    /\ context = browser
    /\ log = <<>>
    /\ bpc = "call"
    /\ tasks = <<>>
    /\ finished = <<>>
    /\ outer = "none"
    /\ exc = NoExc
    /\ result = <<>>
    /\ resolution = Absent
    /\ scale_factor = <<3, 2>>
    /\ object_fit = Absent
    /\ resolved = Unresolved
    /\ conv_cm = 254
    /\ conv_dpi = 96
    /\ pixels = <<>>
    /\ manager_settings = IF playwright_manager = "None" THEN NoSettings ELSE DefaultManagerSettings
    /\ settings = GivenSettings(playwright_manager, manager_settings)
    /\ pages = NoPages
    /\ NoCommand

----------------------------------------------------------------------------
(* generate_image_batch *)

\* context = manager.get_context(), the zip loop and the call of gather: no
\* await in between, so one step.
StartTasks(ctx) ==
    IF get_context(ctx) = "raise"
    THEN /\ bpc' = "raised"
         /\ exc' = Exc("not_initialized", 0)
         /\ UNCHANGED <<tasks, outer>>
    ELSE /\ tasks' = Spawn
         /\ outer' = IF Len(Spawn) = 0 THEN "result" ELSE "pending"
         /\ bpc' = "gather"
         /\ exc' = exc

\* Entry: the resolution is worked out first, and an error there ends the
\* call; then the injected path reads the given session's context, and the
\* owned path constructs a PlaywrightManager and enters it.
Call ==
    /\ bpc = "call"
    /\ resolved' = Resolve(resolution, scale_factor, object_fit)
    /\ IF resolved'.status # "ok"
       THEN /\ bpc' = "raised"
            /\ exc' = Exc(resolved'.status, 0)
            /\ UNCHANGED <<tasks, outer>>
       ELSE IF OwnsSession(playwright_manager)
       THEN /\ bpc' = "aenter_start"
            /\ UNCHANGED <<tasks, outer, exc>>
       ELSE StartTasks(context)
    /\ UNCHANGED <<inputs, args, cli, settings, pages, pixels, session, log, finished, result>>

\* __aenter__: self.playwright = await async_playwright().start()
AEnterStart(o) ==
    /\ bpc = "aenter_start"
    /\ \/ /\ o = "ok"
          /\ playwright' = "started"
          /\ bpc' = "aenter_launch"
          /\ exc' = exc
       \/ /\ o = "fail"
          /\ playwright' = playwright
          /\ bpc' = "raised"
          /\ exc' = Exc("start", 0)
    /\ UNCHANGED <<inputs, args, cli, settings, pages, resolved, pixels, browser, context, log, tasks, finished, outer, result>>

\* __aenter__: self.browser = await self.playwright.chromium.launch(...)
AEnterLaunch(o) ==
    /\ bpc = "aenter_launch"
    /\ \/ /\ o = "ok"
          /\ browser' = "open"
          /\ bpc' = "aenter_context"
          /\ exc' = exc
       \/ /\ o = "fail"
          /\ browser' = browser
          /\ bpc' = "raised"
          /\ exc' = Exc("launch", 0)
    /\ UNCHANGED <<inputs, args, cli, settings, pages, resolved, pixels, playwright, context, log, tasks, finished, outer, result>>

\* __aenter__: self.context = await self.browser.new_context(...); an
\* exception here leaves __aenter__, and __aexit__ is not run for a
\* context manager whose entry failed.  On success the with-body starts.
AEnterContext(o) ==
    /\ bpc = "aenter_context"
    /\ \/ /\ o = "ok"
          /\ context' = "open"
          /\ settings' = [width |-> resolved.width, height |-> resolved.height,
                          scale |-> resolved.scale]
          /\ StartTasks("open")
       \/ /\ o = "fail"
          /\ context' = context
          /\ settings' = settings
          /\ bpc' = "raised"
          /\ exc' = Exc("new_context", 0)
          /\ UNCHANGED <<tasks, outer>>
    /\ UNCHANGED <<inputs, args, cli, pages, resolved, pixels, playwright, browser, log, finished, result>>

RECURSIVE Flatten(_)
\* [item for sublist in results for item in sublist]
Flatten(results) ==
    IF results = <<>> THEN <<>> ELSE Head(results) \o Flatten(Tail(results))

\* Results taken in the order the tasks completed.
GatherResultsByCompletion == [k \in DOMAIN tasks |-> tasks[finished[k]].shot]

\* The result of gather: each task's return value [screenshot], in the
\* order of the awaitables given to gather.
GatherResults == [k \in DOMAIN tasks |-> tasks[k].shot]

\* An exception leaving the with-body runs __aexit__ when the session is
\* owned; on the injected path it reaches the caller directly.
OnBodyExceptionNoExit(pm) == "raised"

OnBodyException(pm) == IF OwnsSession(pm) THEN "aexit_context" ELSE "raised"

\* results = await asyncio.gather(*tasks), all tasks returned
GatherReturn ==
    /\ bpc = "gather"
    /\ outer = "result"
    /\ result' = Flatten(GatherResults)
    /\ bpc' = IF OwnsSession(playwright_manager) THEN "body_close" ELSE "returned"
    /\ UNCHANGED <<inputs, args, cli, settings, pages, resolved, pixels, session, log, tasks, finished, outer, exc>>

\* results = await asyncio.gather(*tasks), a task raised: the first
\* exception is raised in generate_image_batch; the other tasks run on.
GatherRaise ==
    /\ bpc = "gather"
    /\ outer = "exception"
    /\ bpc' = OnBodyException(playwright_manager)
    /\ UNCHANGED <<inputs, args, cli, settings, pages, resolved, pixels, session, log, tasks, finished, outer, exc, result>>

\* context.close(): closing a closed context does nothing; closing an open
\* one closes its pages, or fails and leaves it as it is.
CloseContext(o) ==
    /\ o = "fail" => context = "open"
    /\ log' = Append(log, <<"context.close", o>>)
    /\ context' = IF o = "ok" THEN "closed" ELSE context
    /\ tasks' = IF o = "ok" THEN ClosePages(tasks) ELSE tasks

\* if close_context: await context.close()   (inside the with-body)
BodyClose(o) ==
    /\ bpc = "body_close"
    /\ CloseContext(o)
    /\ exc' = IF o = "ok" THEN exc ELSE Exc("context.close", 0)
    /\ bpc' = "aexit_context"
    /\ UNCHANGED <<inputs, args, cli, settings, pages, resolved, pixels, playwright, browser, finished, outer, result>>

\* After a release step of __aexit__: the next step, or out with the failure.
AfterRelease(o, next) == IF o = "ok" THEN next ELSE "raised"

\* __aexit__: if self.context: await self.context.close()
AExitContext(o) ==
    /\ bpc = "aexit_context"
    /\ CloseContext(o)
    /\ exc' = IF o = "ok" THEN exc ELSE Exc("context.close", 0)
    /\ bpc' = AfterRelease(o, "aexit_browser")
    /\ UNCHANGED <<inputs, args, cli, settings, pages, resolved, pixels, playwright, browser, finished, outer, result>>

\* __aexit__: if self.browser: await self.browser.close()
AExitBrowser(o) ==
    /\ bpc = "aexit_browser"
    /\ o = "fail" => browser = "open"
    /\ log' = Append(log, <<"browser.close", o>>)
    /\ browser' = IF o = "ok" THEN "closed" ELSE browser
    /\ context' = IF o = "ok" THEN "closed" ELSE context
    /\ tasks' = IF o = "ok" THEN ClosePages(tasks) ELSE tasks
    /\ exc' = IF o = "ok" THEN exc ELSE Exc("browser.close", 0)
    /\ bpc' = AfterRelease(o, "aexit_stop")
    /\ UNCHANGED <<inputs, args, cli, settings, pages, resolved, pixels, playwright, finished, outer, result>>

\* __aexit__: if self.playwright: await self.playwright.stop(); then the
\* with statement ends: the pending exception goes on, or the value returns.
AExitStop ==
    /\ bpc = "aexit_stop"
    /\ log' = Append(log, <<"playwright.stop", "ok">>)
    /\ playwright' = "stopped"
    /\ bpc' = IF exc = NoExc THEN "returned" ELSE "raised"
    /\ UNCHANGED <<inputs, args, cli, settings, pages, resolved, pixels, browser, context, tasks, finished, outer, exc, result>>

----------------------------------------------------------------------------
(* _generate, one action per await *)

\* Coroutines awaited one after the other, each only once those before it
\* have ended.
RunnableInTurn(ts, k) ==
    /\ k \in DOMAIN ts
    /\ \A j \in 1..(k - 1) : ts[j].pc \in {"done", "failed"}

\* asyncio.gather makes a task of every coroutine: the event loop runs each
\* of them whenever the call it awaits has completed, whatever the others do.
Runnable(ts, k) == k \in DOMAIN ts

\* page = await context.new_page(); then, with no await in between, the
\* Event, page.on("console", handle_console), the URL, and the call of goto.
NewPage(k) ==
    /\ Runnable(tasks, k)
    /\ tasks[k].pc = "new_page"
    /\ IF context = "open"
       THEN /\ tasks' = [tasks EXCEPT ![k].page = "open", ![k].nav = "loading",
                                      ![k].pc = "goto", ![k].handle = new_page(k),
                                      ![k].view = PageSettings(settings, resolved)]
            /\ pages' = Operate(k, new_page(k))
            /\ UNCHANGED <<finished, outer, exc>>
       ELSE /\ Fails(k, "new_page")
            /\ pages' = pages
    /\ UNCHANGED <<inputs, args, cli, settings, resolved, pixels, session, log, bpc, result>>

\* The page logs to its console; the listener runs handle_console.
Console(k, text) ==
    /\ k \in DOMAIN tasks
    /\ tasks[k].page = "open"
    /\ tasks[k].nav # "blank"
    /\ tasks' = [tasks EXCEPT ![k].render_complete = handle_console(@, text)]
    /\ UNCHANGED <<inputs, args, cli, settings, pages, resolved, pixels, session, log, bpc, finished, outer, exc, result>>

\* await page.goto(url, wait_until="networkidle") returns; wait_for starts
\* the wait on the event and its timer.
GotoDone(k) ==
    /\ Runnable(tasks, k)
    /\ tasks[k].pc = "goto"
    /\ tasks[k].page = "open"
    /\ tasks' = [tasks EXCEPT ![k].nav = "idle", ![k].pc = "wait",
                              ![k].timer = WaitTimer]
    /\ UNCHANGED <<inputs, args, cli, settings, pages, resolved, pixels, session, log, bpc, finished, outer, exc, result>>

\* await page.goto(...) raises: the target cannot be loaded, or the page is gone.
GotoFail(k) ==
    /\ Runnable(tasks, k)
    /\ tasks[k].pc = "goto"
    /\ Fails(k, "goto")
    /\ UNCHANGED <<inputs, args, cli, settings, pages, resolved, pixels, session, log, bpc, result>>

\* wait_for returns because render_complete.wait() returned.
WaitSignalled(k) ==
    /\ Runnable(tasks, k)
    /\ tasks[k].pc = "wait"
    /\ WaitReturns(tasks[k].render_complete)
    /\ tasks' = [tasks EXCEPT ![k].pc = "screenshot",
                              ![k].timer = IF @ = "armed" THEN "cancelled" ELSE @]
    /\ UNCHANGED <<inputs, args, cli, settings, pages, resolved, pixels, session, log, bpc, finished, outer, exc, result>>

\* render_timeout elapses: wait_for raises asyncio.TimeoutError.
WaitTimeout(k) ==
    /\ Runnable(tasks, k)
    /\ tasks[k].pc = "wait"
    /\ tasks[k].timer = "armed"
    /\ IF OnTimeout = "pass"
       THEN /\ tasks' = [tasks EXCEPT ![k].pc = "screenshot", ![k].timer = "fired"]
            /\ UNCHANGED <<finished, outer, exc>>
       ELSE Ends([tasks EXCEPT ![k].pc = "failed", ![k].err = "timeout",
                               ![k].timer = "fired"], k)
    /\ UNCHANGED <<inputs, args, cli, settings, pages, resolved, pixels, session, log, bpc, result>>

\* screenshot = await page.screenshot(path=output_file) returns.
Screenshot(k) ==
    /\ Runnable(tasks, k)
    /\ tasks[k].pc = "screenshot"
    /\ tasks[k].page = "open"
    /\ tasks' = [tasks EXCEPT ![k].shot = <<Capture(tasks[k])>>, ![k].pc = "close"]
    /\ pages' = Operate(k, tasks[k].handle)
    /\ UNCHANGED <<inputs, args, cli, settings, resolved, pixels, session, log, bpc, finished, outer, exc, result>>

\* await page.screenshot(...) raises.
ScreenshotFail(k) ==
    /\ Runnable(tasks, k)
    /\ tasks[k].pc = "screenshot"
    /\ Fails(k, "screenshot")
    /\ UNCHANGED <<inputs, args, cli, settings, pages, resolved, pixels, session, log, bpc, result>>

\* await page.close(); return [screenshot]
ClosePage(k) ==
    /\ Runnable(tasks, k)
    /\ tasks[k].pc = "close"
    /\ Ends([tasks EXCEPT ![k].page = "closed", ![k].pc = "done"], k)
    /\ pages' = Operate(k, tasks[k].handle)
    /\ UNCHANGED <<inputs, args, cli, settings, resolved, pixels, session, log, bpc, result>>

TaskStep(k) ==
    \/ NewPage(k)
    \/ GotoDone(k)
    \/ GotoFail(k)
    \/ WaitSignalled(k)
    \/ WaitTimeout(k)
    \/ Screenshot(k)
    \/ ScreenshotFail(k)
    \/ ClosePage(k)

BatchStep ==
    \/ Call
    \/ \E o \in Outcomes : AEnterStart(o)
    \/ \E o \in Outcomes : AEnterLaunch(o)
    \/ \E o \in Outcomes : AEnterContext(o)
    \/ GatherReturn
    \/ GatherRaise
    \/ \E o \in Outcomes : BodyClose(o)
    \/ \E o \in Outcomes : AExitContext(o)
    \/ \E o \in Outcomes : AExitBrowser(o)
    \/ AExitStop

Next ==
    \/ BatchStep
    \/ \E k \in Tasks : NewPage(k)
    \/ \E k \in Tasks : \E text \in ConsoleTexts : Console(k, text)
    \/ \E k \in Tasks : GotoDone(k)
    \/ \E k \in Tasks : GotoFail(k)
    \/ \E k \in Tasks : WaitSignalled(k)
    \/ \E k \in Tasks : WaitTimeout(k)
    \/ \E k \in Tasks : Screenshot(k)
    \/ \E k \in Tasks : ScreenshotFail(k)
    \/ \E k \in Tasks : ClosePage(k)

Spec == Init /\ [][Next]_vars

\* The event loop runs every task that can run, timers fire, and the engine
\* answers every call; a page is never obliged to log anything.
Fairness ==
    /\ WF_vars(BatchStep)
    /\ \A k \in Tasks : WF_vars(TaskStep(k))

\* Calls without the two optional lists: they only decide how many tasks
\* there are, which the number of targets varies already.
InitNoLists == Init /\ query_parameters_list = Absent /\ output_files = Absent

FairSpec == InitNoLists /\ [][Next]_vars /\ Fairness

-----------------------------------------------------------------------------
(* The resolution step on its own *)

Widths == {100, 800}
Heights == {100, 600}
CmWidths == {1, 254, 2100}
CmHeights == {1, 508, 2970}
Dpis == {0, 96, 300}
Fits == {"contain", "cover", "fill", "none", "stretch"}
ScaleFactors == {<<1, 1>>, <<3, 2>>}

Keys == {"width", "height", "cm_width", "cm_height", "dpi", "object_fit"}

\* Every dict with some of the six keys, each present key with one of its values.
Resolutions ==
    {[key \in present |-> full[key]] :
        present \in SUBSET Keys,
        full \in [width : Widths, height : Heights, cm_width : CmWidths,
                  cm_height : CmHeights, dpi : Dpis, object_fit : Fits]}

\* Calls that differ in resolution, scale_factor and object_fit, with no
\* target to render.
ResolverInit ==
    /\ playwright_manager \in {"None", "entered"}
    /\ targets = <<>>
    /\ query_parameters_list = Absent
    /\ output_files = Absent
    /\ playwright = IF playwright_manager = "entered" THEN "started" ELSE "none"
    /\ browser = IF playwright_manager = "entered" THEN "open" ELSE "none"
    /\ context = browser
    /\ log = <<>>
    /\ bpc = "call"
    /\ tasks = <<>>
    /\ finished = <<>>
    /\ outer = "none"
    /\ exc = NoExc
    /\ result = <<>>
    /\ resolution \in {Absent} \cup {<<"dict", r>> : r \in Resolutions}
    /\ scale_factor \in ScaleFactors
    /\ object_fit \in {Absent} \cup {<<"given", f>> : f \in {"cover", "fill"}}
    /\ resolved = Unresolved
    /\ conv_cm = 254
    /\ conv_dpi = 96
    /\ pixels = <<>>
    /\ manager_settings = IF playwright_manager = "None" THEN NoSettings ELSE DefaultManagerSettings
    /\ settings = GivenSettings(playwright_manager, manager_settings)
    /\ pages = NoPages
    /\ NoCommand

ResolverSpec == ResolverInit /\ [][Call]_vars

-----------------------------------------------------------------------------
(* UnitConverter.cm_to_pixels called directly *)

MaxCm == 300
PaperCms == {508, 2100, 2970}
ConvDpis == {0 - 96, 0 - 1, 0, 1, 2, 72, 96, 300}

\* A converter used on its own: no batch is called.
ConverterInit ==
    /\ playwright_manager = "None"
    /\ targets = <<>>
    /\ query_parameters_list = Absent
    /\ output_files = Absent
    /\ playwright = "none"
    /\ browser = "none"
    /\ context = "none"
    /\ log = <<>>
    /\ bpc = "call"
    /\ tasks = <<>>
    /\ finished = <<>>
    /\ outer = "none"
    /\ exc = NoExc
    /\ result = <<>>
    /\ resolution = Absent
    /\ scale_factor = <<3, 2>>
    /\ object_fit = Absent
    /\ resolved = Unresolved
    /\ conv_cm \in (1..MaxCm) \cup PaperCms
    /\ conv_dpi \in ConvDpis
    /\ pixels = <<>>
    /\ manager_settings = NoSettings
    /\ settings = NoSettings
    /\ pages = NoPages
    /\ NoCommand

\* pixels = UnitConverter().cm_to_pixels(cm, dpi)
Convert ==
    /\ pixels = <<>>
    /\ pixels' = <<cm_to_pixels(conv_cm, conv_dpi)>>
    /\ UNCHANGED <<inputs, args, cli, settings, pages, resolved, session, log, bpc, tasks, finished, outer, exc, result>>

ConverterSpec == ConverterInit /\ [][Convert]_vars


----------------------------------------------------------------------------
(* Properties *)

Ended == bpc \in {"returned", "raised"}

Owned == playwright_manager = "None"

\* The exception in flight is the failure of a render task.
RenderFailure == exc.task # 0

Captured(k) == tasks[k].shot # <<>>

Attempted(op) == \E j \in DOMAIN log : log[j][1] = op

\* C1: a batch on N targets returns, only after every render task has
\* completed, exactly N screenshots, the i-th one that of targets[i],
\* whatever the order in which the tasks completed.
C1_OrderedResults ==
    bpc = "returned" =>
        /\ \A k \in DOMAIN tasks : tasks[k].pc = "done"
        /\ Len(result) = Len(targets)
        /\ \A i \in DOMAIN result : result[i].url = url_address(targets[i])

\* With C1: when the zip did not drop a target, the returned list has one
\* screenshot per target, in the order of targets, for every completion order.
OrderedWhenNotTruncated ==
    (bpc = "returned" /\ Len(tasks) = Len(targets)) =>
        /\ \A k \in DOMAIN tasks : tasks[k].pc = "done"
        /\ Len(result) = Len(targets)
        /\ \A i \in DOMAIN result : result[i].url = url_address(targets[i])

\* C2: a screenshot is captured only after navigation reached network idle
\* and, after that, the RENDER_COMPLETE event was set or the timeout
\* elapsed; a screenshot taken without the timer having fired shows the
\* page after its signal.
C2_ShotAfterIdleAndSignalOrTimeout ==
    \A k \in DOMAIN tasks :
        /\ Captured(k) =>
              /\ tasks[k].shot[1].nav = "idle"
              /\ tasks[k].shot[1].complete \/ tasks[k].timer = "fired"
        /\ tasks[k].pc \in {"screenshot", "close", "done"} =>
              /\ tasks[k].nav = "idle"
              /\ tasks[k].render_complete \/ tasks[k].timer = "fired"

\* A task whose page signalled before the timeout and whose screenshot is taken.
C2_Witness ==
    \E k \in DOMAIN tasks :
        /\ Captured(k)
        /\ tasks[k].shot[1].complete
        /\ tasks[k].timer = "cancelled"

\* C3: the elapsed render_timeout is absorbed: a task whose timer fired goes
\* on to the screenshot (it can fail there, never at the wait), no
\* TimeoutError reaches gather or the caller, a screenshot of a page that
\* has not signalled is taken only after the timer fired, and a batch that
\* returns holds that task's screenshot at its position.
C3_TimeoutAbsorbed ==
    /\ exc.kind # "timeout"
    /\ \A k \in DOMAIN tasks :
        /\ tasks[k].err # "timeout"
        /\ tasks[k].timer = "fired" =>
              \/ tasks[k].pc \in {"screenshot", "close", "done"}
              \/ tasks[k].pc = "failed" /\ tasks[k].err = "screenshot"
        /\ (Captured(k) /\ ~tasks[k].shot[1].complete) => tasks[k].timer = "fired"
        /\ (bpc = "returned" /\ tasks[k].timer = "fired") =>
              /\ k \in DOMAIN result
              /\ result[k] = tasks[k].shot[1]
              /\ result[k].url = url_address(targets[k])

\* The batch has returned with the screenshot of a page that never signalled.
C3_Witness ==
    /\ bpc = "returned"
    /\ \E k \in DOMAIN tasks :
        /\ tasks[k].timer = "fired"
        /\ ~tasks[k].render_complete
        /\ result[k] = tasks[k].shot[1]

\* C4: a task that has reached network idle (it is in its completion wait)
\* eventually finishes with its screenshot taken and its page closed,
\* whether or not the page ever signals, unless the engine fails its
\* screenshot call.
C4_WaitLeadsToDone ==
    \A k \in Tasks :
        (k \in DOMAIN tasks /\ tasks[k].pc = "wait")
            ~> /\ k \in DOMAIN tasks
               /\ \/ tasks[k].pc = "done" /\ Captured(k) /\ tasks[k].page = "closed"
                  \/ tasks[k].pc = "failed" /\ tasks[k].err = "screenshot"

\* A task finished by the timeout path: its page never signalled.
C4_Witness ==
    \E k \in DOMAIN tasks :
        /\ tasks[k].pc = "done"
        /\ tasks[k].timer = "fired"
        /\ ~tasks[k].render_complete

\* C5: owned session: when the failure of a render task reaches the caller,
\* the context has been closed and then the browser, in that order.
C5_TeardownOnRenderFailure ==
    (Owned /\ bpc = "raised" /\ RenderFailure) =>
        /\ Len(log) >= 2
        /\ log[1] = <<"context.close", "ok">>
        /\ log[2] = <<"browser.close", "ok">>
        /\ context = "closed"
        /\ browser = "closed"

\* The failure of a render task has reached the caller of an owned batch.
C5_Witness ==
    /\ Owned
    /\ bpc = "raised"
    /\ RenderFailure
    /\ \E k \in DOMAIN tasks : tasks[k].pc = "failed" /\ tasks[k].err = "goto"

\* C6: on release both steps are attempted: when closing the context fails,
\* closing the browser is attempted all the same.
C6_BrowserCloseAttemptedAfterContextCloseFails ==
    (Ended /\ \E j \in DOMAIN log : log[j] = <<"context.close", "fail">>)
        => Attempted("browser.close")

\* C7: every browser the owned session launched has been closed (its close
\* attempted) when the call ends, also when opening the context failed.
C7_LaunchedBrowserIsClosed ==
    (Owned /\ Ended /\ browser # "none") => Attempted("browser.close")

\* C8: get_context fails outside the scoped lifetime: a batch given a
\* session that was never entered, or one already exited, ends at once with
\* the not-initialized failure and starts no task.
C8_GetContextFailsOutsideScope ==
    (playwright_manager \in {"fresh", "exited"} /\ bpc # "call") =>
        /\ bpc = "raised"
        /\ exc.kind = "not_initialized"
        /\ tasks = <<>>

\* C9: a batch given an entered session never closes it: context, browser
\* and playwright stay as they were, and no release call is made, on
\* success and on failure.
C9_InjectedSessionStaysOpen ==
    playwright_manager = "entered" =>
        /\ context = "open"
        /\ browser = "open"
        /\ playwright = "started"
        /\ log = <<>>

\* A batch on an entered session has ended with the failure of a render task.
C9_Witness ==
    /\ playwright_manager = "entered"
    /\ bpc = "raised"
    /\ RenderFailure

Shorter(xs) == xs # Absent /\ xs[2] < Len(targets)

\* C10: a query_parameters_list or output_files shorter than targets is
\* filled up with None: one task per target, and len(targets) results.
C10_ShortListsPadded ==
    (Shorter(query_parameters_list) \/ Shorter(output_files)) =>
        /\ bpc = "gather" => Len(tasks) = Len(targets)
        /\ bpc = "returned" => Len(result) = Len(targets)

AnyFailed == \E k \in DOMAIN tasks : tasks[k].pc = "failed"

\* The exception in flight is the one a failed render task raised.
IsTaskFailure(e) ==
    /\ e.task \in DOMAIN tasks
    /\ tasks[e.task].pc = "failed"
    /\ tasks[e.task].err = e.kind

\* The first render task that failed.
FirstFailed ==
    LET j == CHOOSE j \in DOMAIN finished :
                 /\ tasks[finished[j]].pc = "failed"
                 /\ \A i \in 1..(j - 1) : tasks[finished[i]].pc # "failed"
    IN finished[j]

-----------------------------------------------------------------------------
(* Batches that differ in the resolution asked for and in the given session *)

ViewResolutions ==
    {Absent, <<"dict", [cm_width |-> 254, cm_height |-> 508, dpi |-> 96]>>}

\* What a caller may have constructed the given PlaywrightManager with.
ManagerSettings ==
    {DefaultManagerSettings, [width |-> 1920, height |-> 1080, scale |-> <<3, 2>>]}

ViewInit ==
    /\ playwright_manager \in {"None", "entered"}
    /\ targets \in {[k \in 1..n |-> k] : n \in 0..MaxTargets}
    /\ query_parameters_list = Absent
    /\ output_files = Absent
    /\ playwright = IF playwright_manager = "entered" THEN "started" ELSE "none"
    /\ browser = IF playwright_manager = "entered" THEN "open" ELSE "none"
    /\ context = browser
    /\ log = <<>>
    /\ bpc = "call"
    /\ tasks = <<>>
    /\ finished = <<>>
    /\ outer = "none"
    /\ exc = NoExc
    /\ result = <<>>
    /\ resolution \in ViewResolutions
    /\ scale_factor \in ScaleFactors
    /\ object_fit = Absent
    /\ resolved = Unresolved
    /\ conv_cm = 254
    /\ conv_dpi = 96
    /\ pixels = <<>>
    /\ manager_settings \in IF playwright_manager = "None" THEN {NoSettings} ELSE ManagerSettings
    /\ settings = GivenSettings(playwright_manager, manager_settings)
    /\ pages = NoPages
    /\ NoCommand

ViewSpec == ViewInit /\ [][Next]_vars

-----------------------------------------------------------------------------
(* The capture command of the command line *)

\* What the SOURCE argument is: the name of a file (which exists or not), a
\* URL, or HTML markup.  The command only asks whether a file of that name
\* exists and whether the text starts with http:// or https://.
Sources ==
    {[form |-> "path", exists |-> TRUE], [form |-> "path", exists |-> FALSE],
     [form |-> "url", exists |-> FALSE], [form |-> "markup", exists |-> FALSE]}

SizeOptions == [width |-> 800, height |-> 600, cm_width |-> 2100, cm_height |-> 2970]

\* Any of --width, --height, --cm-width, --cm-height may be given.
OptionSets == {[key \in given |-> SizeOptions[key]] : given \in SUBSET DOMAIN SizeOptions}

ScaleOptions == {<<1, 1>>, <<2, 1>>}

\* target: the content of an existing file, the URL as it is, or the source
\* text itself as an HtmlDoc.
CliTarget(src) ==
    IF src.exists THEN [kind |-> "HtmlDoc", html |-> "file content"]
    ELSE IF src.form = "url" THEN [kind |-> "str", html |-> "source"]
    ELSE [kind |-> "HtmlDoc", html |-> "source"]

\* resolution: the cm pair with --dpi, else the pixel pair, else 1920 x 1080.
CliResolution(opts, dpi) ==
    IF "cm_width" \in DOMAIN opts /\ "cm_height" \in DOMAIN opts
    THEN [cm_width |-> opts["cm_width"], cm_height |-> opts["cm_height"], dpi |-> dpi]
    ELSE IF "width" \in DOMAIN opts /\ "height" \in DOMAIN opts
    THEN [width |-> opts["width"], height |-> opts["height"]]
    ELSE [width |-> 1920, height |-> 1080]

\* One run of capture on an owned session.
CliInit ==
    /\ playwright_manager = "None"
    /\ targets = <<>>
    /\ query_parameters_list = Absent
    /\ output_files = Absent
    /\ playwright = "none"
    /\ browser = "none"
    /\ context = "none"
    /\ log = <<>>
    /\ bpc = "idle"
    /\ tasks = <<>>
    /\ finished = <<>>
    /\ outer = "none"
    /\ exc = NoExc
    /\ result = <<>>
    /\ resolution = Absent
    /\ scale_factor = <<3, 2>>
    /\ object_fit = Absent
    /\ resolved = Unresolved
    /\ conv_cm = 254
    /\ conv_dpi = 96
    /\ pixels = <<>>
    /\ manager_settings = NoSettings
    /\ settings = NoSettings
    /\ pages = NoPages
    /\ source \in Sources
    /\ options \in OptionSets
    /\ dpi_option = 300
    /\ scale_option \in ScaleOptions
    /\ output \in {Absent, <<"given">>}
    /\ cpc = "start"
    /\ stdout = <<>>
    /\ exit_code = <<>>

\* except Exception as e: print("Error: ..."); raise typer.Exit(1)
CliFail ==
    /\ stdout' = Append(stdout, "Error")
    /\ exit_code' = <<1>>
    /\ cpc' = "exited"

\* capture up to its call of generate_image_sync, which runs generate_image
\* and so generate_image_batch([target], ...) with one-entry lists; reading
\* an existing file may fail.
CliCapture(o) ==
    /\ cpc = "start"
    /\ o = "fail" => source.exists
    /\ IF o = "fail"
       THEN /\ CliFail
            /\ UNCHANGED <<targets, resolution, query_parameters_list, output_files,
                           scale_factor, object_fit, bpc>>
       ELSE /\ targets' = <<CliTarget(source)>>
            /\ resolution' = <<"dict", CliResolution(options, dpi_option)>>
            /\ query_parameters_list' = ListOf(1)
            /\ output_files' = ListOf(1)
            /\ scale_factor' = scale_option
            /\ object_fit' = Absent
            /\ bpc' = "call"
            /\ cpc' = "running"
            /\ UNCHANGED <<stdout, exit_code>>
    /\ UNCHANGED <<playwright_manager, conv_cm, conv_dpi, manager_settings, args, session,
                   settings, pages, log, tasks, finished, outer, exc, result, resolved, pixels>>

\* generate_image_sync has returned screenshots[0] or raised: the success
\* message and exit code 0, or the error message and exit code 1.
CliExit ==
    /\ cpc = "running"
    /\ bpc \in {"returned", "raised"}
    /\ IF bpc = "returned" /\ Len(result) > 0
       THEN /\ stdout' = Append(stdout, IF output # Absent THEN "Image successfully saved"
                                        ELSE "Image generated successfully")
            /\ exit_code' = <<0>>
            /\ cpc' = "exited"
       ELSE CliFail
    /\ UNCHANGED <<inputs, args, settings, pages, resolved, pixels, session, log, bpc, tasks,
                   finished, outer, exc, result>>

CliNext ==
    \/ \E o \in Outcomes : CliCapture(o)
    \/ CliExit
    \/ Next

CliSpec == CliInit /\ [][CliNext]_vars

-----------------------------------------------------------------------------
(* Properties of the resolution step *)

ResolutionDone == bpc # "call"

Has(key) == resolution # Absent /\ key \in DOMAIN resolution[2]

Field(key) == resolution[2][key]

HasPixelPair == Has("width") /\ Has("height")

HasCmPair == Has("cm_width") /\ Has("cm_height")

Hybrid == HasPixelPair /\ HasCmPair

DpiChosen == IF Has("dpi") THEN Field("dpi") ELSE 300

TargetW == cm_to_pixels(Field("cm_width"), DpiChosen)

TargetH == cm_to_pixels(Field("cm_height"), DpiChosen)

FitMode ==
    IF Has("object_fit") THEN Field("object_fit")
    ELSE IF object_fit # Absent THEN object_fit[2]
    ELSE "contain"

RatioW == Frac(Field("width"), TargetW)

RatioH == Frac(Field("height"), TargetH)

\* C12: for a hybrid resolution whose physical size converts to a non-zero
\* number of pixels, deviceScaleFactor is scale_factor * ratio * (dpi / 96)
\* with ratio the smaller (CONTAIN) or the larger (COVER) of screenW/targetW
\* and screenH/targetH, and scale_factor * (dpi / 96) under FILL and NONE.
C12_HybridDeviceScale ==
    (ResolutionDone /\ Hybrid /\ TargetW # 0 /\ TargetH # 0) =>
        /\ FitMode = "contain" =>
              /\ resolved.status = "ok"
              /\ REq(resolved.scale,
                     RMul(RMul(scale_factor, RMin(RatioW, RatioH)), Frac(DpiChosen, 96)))
        /\ FitMode = "cover" =>
              /\ resolved.status = "ok"
              /\ REq(resolved.scale,
                     RMul(RMul(scale_factor, RMax(RatioW, RatioH)), Frac(DpiChosen, 96)))
        /\ FitMode \in {"fill", "none"} =>
              /\ resolved.status = "ok"
              /\ REq(resolved.scale, RMul(scale_factor, Frac(DpiChosen, 96)))

\* A hybrid resolution resolved under CONTAIN whose two ratios differ, so
\* that the smaller one is a real choice.
C12_Witness ==
    /\ ResolutionDone /\ Hybrid /\ TargetW # 0 /\ TargetH # 0
    /\ FitMode = "contain"
    /\ ~REq(RatioW, RatioH)
    /\ resolved.status = "ok"
    /\ REq(resolved.scale, RMul(RMul(scale_factor, RMin(RatioW, RatioH)), Frac(DpiChosen, 96)))

\* C13: for a hybrid resolution the resolved viewport is the resolution's
\* width and height in every fit mode, never the size derived from the
\* physical dimensions.
C13_HybridViewportIsScreen ==
    (ResolutionDone /\ Hybrid /\ resolved.status = "ok") =>
        /\ resolved.width = Field("width")
        /\ resolved.height = Field("height")

\* A hybrid resolution resolved under FILL whose physical size in pixels
\* differs from its width and height.
C13_Witness ==
    /\ ResolutionDone /\ Hybrid /\ resolved.status = "ok"
    /\ FitMode = "fill"
    /\ TargetW # Field("width") /\ TargetH # Field("height")
    /\ resolved.width = Field("width") /\ resolved.height = Field("height")

\* C14: a resolution with width and height but not both cm_width and
\* cm_height resolves to exactly that width and height, with
\* deviceScaleFactor equal to scale_factor.
C14_PixelOnly ==
    (ResolutionDone /\ HasPixelPair /\ ~HasCmPair) =>
        /\ resolved.status = "ok"
        /\ resolved.width = Field("width")
        /\ resolved.height = Field("height")
        /\ REq(resolved.scale, scale_factor)

\* A pixel resolution that also carries one of the two physical dimensions.
C14_Witness ==
    /\ ResolutionDone /\ HasPixelPair /\ Has("cm_width") /\ ~Has("cm_height")
    /\ resolved.status = "ok"
    /\ resolved.width = Field("width")
    /\ resolved.scale = scale_factor

\* C15: a resolution with cm_width and cm_height but not both width and
\* height resolves to cm_to_pixels of each physical dimension at its dpi, 300
\* when it has none, with deviceScaleFactor equal to scale_factor.
C15_CmOnly ==
    (ResolutionDone /\ HasCmPair /\ ~HasPixelPair) =>
        /\ resolved.status = "ok"
        /\ resolved.width = cm_to_pixels(Field("cm_width"), DpiChosen)
        /\ resolved.height = cm_to_pixels(Field("cm_height"), DpiChosen)
        /\ REq(resolved.scale, scale_factor)

\* An A4 page without a dpi, and with a lone width that does not count:
\* 21 cm by 29.7 cm at 300 dpi is 2480 by 3508 pixels.
C15_Witness ==
    /\ ResolutionDone /\ HasCmPair /\ Has("width") /\ ~Has("height") /\ ~Has("dpi")
    /\ Field("cm_width") = 2100 /\ Field("cm_height") = 2970
    /\ resolved.width = 2480 /\ resolved.height = 3508
    /\ resolved.scale = scale_factor

\* C16: with no resolution, or one with neither a complete pixel pair nor a
\* complete physical pair, the viewport is 1920 by 1080 and deviceScaleFactor
\* equals scale_factor.
C16_DefaultViewport ==
    (ResolutionDone /\ (resolution = Absent \/ (~HasPixelPair /\ ~HasCmPair))) =>
        /\ resolved.status = "ok"
        /\ resolved.width = 1920
        /\ resolved.height = 1080
        /\ REq(resolved.scale, scale_factor)

\* A resolution with half of each pair.
C16_Witness ==
    /\ ResolutionDone /\ Has("width") /\ ~Has("height") /\ Has("cm_height") /\ ~Has("cm_width")
    /\ resolved.width = 1920 /\ resolved.height = 1080

\* C17: the fit mode used is the resolution's object_fit when it has one,
\* otherwise the object_fit parameter, otherwise CONTAIN.
C17_FitModeSource ==
    ResolutionDone => resolved.fit = FitMode

\* An object_fit in the resolution that differs from the parameter, and wins.
C17_Witness ==
    /\ ResolutionDone /\ Has("object_fit") /\ object_fit # Absent
    /\ Field("object_fit") # object_fit[2]
    /\ resolved.fit = Field("object_fit")

AllPositive ==
    /\ resolution # Absent
    /\ \A key \in {"width", "height", "cm_width", "cm_height", "dpi"} :
           Has(key) => Field(key) > 0
    /\ RPositive(scale_factor)

\* C18: when every supplied field and scale_factor are positive, the
\* resolution step completes and the viewport's width and height and
\* deviceScaleFactor are positive.
C18_PositiveInPositiveOut ==
    (ResolutionDone /\ AllPositive) =>
        /\ resolved.status = "ok"
        /\ resolved.width > 0
        /\ resolved.height > 0
        /\ RPositive(resolved.scale)

-----------------------------------------------------------------------------
(* Properties of cm_to_pixels *)

Converted == pixels # <<>>

Abs(x) == IF x < 0 THEN 0 - x ELSE x

\* C19: cm_to_pixels returns no pixel count when dpi is not positive.
C19_NonPositiveDpiRejected ==
    conv_dpi <= 0 => ~Converted

\* C20: for positive cm and dpi, cm_to_pixels returns an integer within half
\* a pixel of cm * dpi / 2.54; 2.54 cm gives dpi pixels and 5.08 cm at 96 dpi
\* gives 192.
C20_NearestInteger ==
    (Converted /\ conv_cm > 0 /\ conv_dpi > 0) =>
        /\ 2 * Abs(254 * pixels[1] - conv_cm * conv_dpi) <= 254
        /\ conv_cm = 254 => pixels[1] = conv_dpi
        /\ (conv_cm = 508 /\ conv_dpi = 96) => pixels[1] = 192

\* A conversion that rounds up: 0.02 cm at 96 dpi is 0.756 pixels, so 1.
C20_Witness ==
    /\ Converted /\ conv_cm = 2 /\ conv_dpi = 96 /\ pixels = <<1>>

-----------------------------------------------------------------------------
(* Properties of the capture command *)

NamesMissingFile == source.form = "path" /\ ~source.exists

\* C21: capture on a source that names a file which does not exist exits
\* with code 1 and an error message, and exits with code 0 only when an image
\* was produced from a valid source.
C21_MissingFileExitsOne ==
    cpc = "exited" =>
        /\ NamesMissingFile => (exit_code = <<1>> /\ stdout = <<"Error">>)
        /\ exit_code = <<0>> => (~NamesMissingFile /\ Len(result) = 1)

-----------------------------------------------------------------------------
(* Properties of the render tasks as a group *)

Suspended(j) == tasks[j].pc \in {"goto", "wait"}

\* C22: a task suspended in navigation or in its completion wait never keeps
\* another task of the batch from its next step: opening its page, finishing
\* its navigation or its wait, taking its screenshot, closing its page.
C22_SuspendedTaskBlocksNoOne ==
    \A j, k \in DOMAIN tasks :
        (j # k /\ Suspended(j)) =>
            /\ tasks[k].pc = "new_page" => ENABLED NewPage(k)
            /\ tasks[k].pc = "goto" => ENABLED (GotoDone(k) \/ GotoFail(k))
            /\ tasks[k].pc = "wait" => ENABLED (WaitSignalled(k) \/ WaitTimeout(k))
            /\ tasks[k].pc = "screenshot" => ENABLED (Screenshot(k) \/ ScreenshotFail(k))
            /\ tasks[k].pc = "close" => ENABLED ClosePage(k)

\* The second task has opened, navigated, captured and closed its page while
\* the first is still waiting for its completion signal.
C22_Witness ==
    /\ Len(tasks) >= 2
    /\ tasks[1].pc = "wait" /\ tasks[1].page = "open"
    /\ tasks[2].pc = "done" /\ Captured(2) /\ tasks[2].page = "closed"

\* The pages a task has operated on.
PagesOf(k) == {h \in DOMAIN pages : k \in pages[h]}

\* C23: every render task opens one page and is the only task that ever
\* registers a listener on, navigates, screenshots or closes it: no page is
\* operated on by two tasks, and no task operates on two pages.
C23_PageExclusive ==
    /\ \A h \in DOMAIN pages : Cardinality(pages[h]) <= 1
    /\ \A k \in DOMAIN tasks :
          /\ Cardinality(PagesOf(k)) <= 1
          /\ tasks[k].page # "none" => PagesOf(k) = {tasks[k].handle}
          /\ tasks[k].page = "none" => PagesOf(k) = {}

\* Two tasks have each opened, navigated, captured and closed a page, and
\* the two pages are different.
C23_Witness ==
    /\ Len(tasks) >= 2
    /\ tasks[1].pc = "done" /\ tasks[2].pc = "done"
    /\ tasks[1].handle # tasks[2].handle
    /\ pages[tasks[1].handle] = {1} /\ pages[tasks[2].handle] = {2}

-----------------------------------------------------------------------------
(* Properties of the completion flag *)

\* C24: the completion flag is a set-once latch whose listener is there
\* before navigation starts.  In every step: a flag that is set stays set; a
\* RENDER_COMPLETE message sets it, and changes nothing when it is set
\* already; a message with another text leaves it as it is; and nothing but a
\* RENDER_COMPLETE message sets it.  In every state: a page that is still
\* loading can deliver the message, and a wait that finds the flag set can
\* return.
C24_FlagIsSetOnceLatch ==
    /\ [][\A k \in DOMAIN tasks :
            /\ tasks[k].render_complete => tasks'[k].render_complete
            /\ Console(k, "RENDER_COMPLETE") => tasks'[k].render_complete
            /\ (Console(k, "RENDER_COMPLETE") /\ tasks[k].render_complete) => tasks' = tasks
            /\ Console(k, "other") => tasks'[k].render_complete = tasks[k].render_complete
            /\ (tasks'[k].render_complete /\ ~tasks[k].render_complete)
                   => Console(k, "RENDER_COMPLETE")]_vars
    /\ [](\A k \in DOMAIN tasks :
            /\ (tasks[k].page = "open" /\ tasks[k].nav = "loading")
                   => ENABLED Console(k, "RENDER_COMPLETE")
            /\ (tasks[k].pc = "wait" /\ tasks[k].render_complete)
                   => ENABLED WaitSignalled(k))

\* The signal has arrived during navigation, before network idle.
C24_Witness ==
    \E k \in DOMAIN tasks :
        /\ tasks[k].pc = "goto" /\ tasks[k].nav = "loading" /\ tasks[k].page = "open"
        /\ tasks[k].render_complete

-----------------------------------------------------------------------------
(* Properties of the pages and the context at the end of a batch *)

\* C25: when generate_image_batch has returned or raised, no page opened by
\* its render tasks is still open, whether the session is owned or injected.
C25_NoPageLeftOpen ==
    Ended => \A k \in DOMAIN tasks : tasks[k].page # "open"

\* The task has opened its page and has neither closed it nor failed.
InProgress(k) == tasks[k].pc \in {"goto", "wait", "screenshot", "close"}

\* C26 as stated: with an owned session the context is never closed while a
\* render task is in progress, also when another task has failed.
C26_ContextOpenWhileTasksRun ==
    (Owned /\ context = "closed") => \A k \in DOMAIN tasks : ~InProgress(k)

\* C26, amended: with an owned session the context is never closed while a
\* render task is in progress unless a render task of the batch has failed.
C26_ContextOpenUntilFirstFailure ==
    (Owned /\ context = "closed" /\ ~AnyFailed) => \A k \in DOMAIN tasks : ~InProgress(k)

\* Every task has closed its page, and then the owned context was closed.
C26_Witness ==
    /\ Owned /\ context = "closed" /\ ~AnyFailed
    /\ Len(tasks) >= 2
    /\ \A k \in DOMAIN tasks : tasks[k].pc = "done"
    /\ log[1] = <<"context.close", "ok">>

-----------------------------------------------------------------------------
(* Properties of the viewport a page is rendered at *)

Injected == playwright_manager = "entered"

AskedSettings == [width |-> resolved.width, height |-> resolved.height, scale |-> resolved.scale]

\* C27: with an injected session the context keeps the viewport and device
\* scale factor it was created with, and every page of the batch is opened
\* and captured at them, whatever resolution, scale_factor and object_fit
\* the call was given.
C27_InjectedSettingsApply ==
    Injected =>
        /\ settings = manager_settings
        /\ \A k \in DOMAIN tasks :
              /\ tasks[k].page # "none" => tasks[k].view = manager_settings
              /\ Captured(k) => tasks[k].shot[1].view = manager_settings

\* A page captured on a given session whose settings are not the ones the
\* call's arguments resolve to.
C27_Witness ==
    /\ Injected /\ resolved.status = "ok" /\ AskedSettings # manager_settings
    /\ \E k \in DOMAIN tasks : Captured(k) /\ tasks[k].shot[1].view = manager_settings

====
